---- MODULE Spec2Model ----
(***************************************************************************)
(* A model of app/main.py of ai-markets: the three price endpoints         *)
(* (crypto_price, stock_price, forex_price) and the POST /chat handler     *)
(* that gathers prices and forwards a prompt to the LLM.                   *)
(*                                                                         *)
(* Representation.  A Python str is a sequence of one-character strings.   *)
(* A Python float / JSON number is the exact decimal sign * m / 10^e, or   *)
(* nan, or an infinity.  A handler's result is either the dictionary it    *)
(* returns (raised = FALSE) or the HTTPException it raises (raised =       *)
(* TRUE).  A provider's answer is a record whose kind is "error" when      *)
(* fetch_json / fetch_text raise (transport failure, timeout, non-2xx      *)
(* status, unparsable JSON).                                               *)
(*                                                                         *)
(* Steps.  A handler runs from one suspension point to the next: a step    *)
(* ends where the handler sends a request to a provider and awaits the     *)
(* answer, and the next step starts when the answer is in.  While it is    *)
(* suspended its task may be cancelled.  One request is followed: the      *)
(* handlers share nothing but openai_client, which is written once, at     *)
(* import, so requests served together do not change each other's course.  *)
(*                                                                         *)
(* Providers.  The answer to each call is chosen when the call comes back. *)
(* The chat handler makes up to 16 lookups with three outcomes each, so    *)
(* the choice is free on every call of a request with up to                *)
(* MaxMixedLookups lookups; a longer request is followed with each         *)
(* provider in one fixed condition: failing on every call, without a       *)
(* price for any symbol, with a price for every symbol, or with a price    *)
(* for some symbols only.  The condition is part of the initial state; no  *)
(* step of the handler is guarded by it.                                   *)
(***************************************************************************)
EXTENDS Integers, Sequences, FiniteSets, TLC

VARIABLES
    openai_client,  \* the module-level OpenAI client: "OpenAI" or "None"
    request,        \* the request being served
    pc,             \* where its handler stands
    tickers,        \* chat: the parsed tickers
    coins,          \* chat: the parsed coins
    idx,            \* chat: iterations completed of the running for loop
    context_lines,  \* chat: the lines gathered so far
    calls,          \* the requests sent to the price providers, in order
    outcomes,       \* per lookup that has come back: the adapter raised
    llm_calls,      \* the requests sent to the LLM, in order
    llm_outcomes,   \* per LLM call that has come back: it raised
    fetched,        \* price endpoints: what fetch_json / fetch_text gave the
                    \* handler (its local data / txt); chat keeps none
    response,       \* what the handler returned or raised
    providers       \* the condition of each price provider during the request

vars == <<openai_client, request, pc, tickers, coins, idx, context_lines,
          calls, outcomes, llm_calls, llm_outcomes, fetched, response,
          providers>>

(***************************************************************************)
(* Bounds of the model                                                     *)
(***************************************************************************)
\* number of comma-separated tokens in the longest "tickers" / "coins" field
MaxTokens == 11
\* number of lookups of one /chat request that go to a provider in condition
\* "any", where each call may get any answer of the provider
MaxMixedLookups == 6

(***************************************************************************)
(* Python str operations                                                   *)
(***************************************************************************)
LowerChars == <<"a","b","c","d","e","f","g","h","i","j","k","l","m",
                "n","o","p","q","r","s","t","u","v","w","x","y","z">>
UpperChars == <<"A","B","C","D","E","F","G","H","I","J","K","L","M",
                "N","O","P","Q","R","S","T","U","V","W","X","Y","Z">>
Digits == <<"0","1","2","3","4","5","6","7","8","9">>

\* The characters of the model: U+0001 to U+00FF, without the grave accent,
\* which a TLA+ string cannot hold, and without the micro sign and y with
\* diaeresis, whose upper case lies beyond U+00FF.  The str operations
\* below have no value on a string with any other character.
Chars == {
    "", "", "", "", "", "", "", "", "\t", "\n", "", "\f", "\r",
    "", "", "", "", "", "", "", "", "", "", "", "", "", "",
    "", "", "", "", " ", "!", "\"", "#", "$", "%", "&", "'", "(", ")",
    "*", "+", ",", "-", ".", "/", "0", "1", "2", "3", "4", "5", "6", "7",
    "8", "9", ":", ";", "<", "=", ">", "?", "@", "A", "B", "C", "D", "E",
    "F", "G", "H", "I", "J", "K", "L", "M", "N", "O", "P", "Q", "R", "S",
    "T", "U", "V", "W", "X", "Y", "Z", "[", "\\", "]", "^", "_", "a", "b",
    "c", "d", "e", "f", "g", "h", "i", "j", "k", "l", "m", "n", "o", "p",
    "q", "r", "s", "t", "u", "v", "w", "x", "y", "z", "{", "|", "}", "~",
    "", "", "", "", "", "", "", "", "", "", "", "", "", "",
    "", "", "", "", "", "", "", "", "", "", "", "", "", "",
    "", "", "", "", "", " ", "¡", "¢", "£", "¤", "¥", "¦", "§", "¨",
    "©", "ª", "«", "¬", "­", "®", "¯", "°", "±", "²", "³", "´", "¶", "·",
    "¸", "¹", "º", "»", "¼", "½", "¾", "¿", "À", "Á", "Â", "Ã", "Ä", "Å",
    "Æ", "Ç", "È", "É", "Ê", "Ë", "Ì", "Í", "Î", "Ï", "Ð", "Ñ", "Ò", "Ó",
    "Ô", "Õ", "Ö", "×", "Ø", "Ù", "Ú", "Û", "Ü", "Ý", "Þ", "ß", "à", "á",
    "â", "ã", "ä", "å", "æ", "ç", "è", "é", "ê", "ë", "ì", "í", "î", "ï",
    "ð", "ñ", "ò", "ó", "ô", "õ", "ö", "÷", "ø", "ù", "ú", "û", "ü", "ý",
    "þ" }
\* the characters c of Chars with c.isspace(): what str.strip() removes
Whitespace == {
    "\t", "\n", "", "\f", "\r", "", "", "", "", " ", "", " " }
\* c.upper() for the characters of Chars it changes
UpperRows == <<
    <<"a", <<"A">>>>, <<"b", <<"B">>>>, <<"c", <<"C">>>>, <<"d", <<"D">>>>,
    <<"e", <<"E">>>>, <<"f", <<"F">>>>, <<"g", <<"G">>>>, <<"h", <<"H">>>>,
    <<"i", <<"I">>>>, <<"j", <<"J">>>>, <<"k", <<"K">>>>, <<"l", <<"L">>>>,
    <<"m", <<"M">>>>, <<"n", <<"N">>>>, <<"o", <<"O">>>>, <<"p", <<"P">>>>,
    <<"q", <<"Q">>>>, <<"r", <<"R">>>>, <<"s", <<"S">>>>, <<"t", <<"T">>>>,
    <<"u", <<"U">>>>, <<"v", <<"V">>>>, <<"w", <<"W">>>>, <<"x", <<"X">>>>,
    <<"y", <<"Y">>>>, <<"z", <<"Z">>>>, <<"ß", <<"S", "S">>>>,
    <<"à", <<"À">>>>, <<"á", <<"Á">>>>, <<"â", <<"Â">>>>, <<"ã", <<"Ã">>>>,
    <<"ä", <<"Ä">>>>, <<"å", <<"Å">>>>, <<"æ", <<"Æ">>>>, <<"ç", <<"Ç">>>>,
    <<"è", <<"È">>>>, <<"é", <<"É">>>>, <<"ê", <<"Ê">>>>, <<"ë", <<"Ë">>>>,
    <<"ì", <<"Ì">>>>, <<"í", <<"Í">>>>, <<"î", <<"Î">>>>, <<"ï", <<"Ï">>>>,
    <<"ð", <<"Ð">>>>, <<"ñ", <<"Ñ">>>>, <<"ò", <<"Ò">>>>, <<"ó", <<"Ó">>>>,
    <<"ô", <<"Ô">>>>, <<"õ", <<"Õ">>>>, <<"ö", <<"Ö">>>>, <<"ø", <<"Ø">>>>,
    <<"ù", <<"Ù">>>>, <<"ú", <<"Ú">>>>, <<"û", <<"Û">>>>, <<"ü", <<"Ü">>>>,
    <<"ý", <<"Ý">>>>, <<"þ", <<"Þ">>>> >>
\* c.lower() for the characters of Chars it changes
LowerRows == <<
    <<"A", <<"a">>>>, <<"B", <<"b">>>>, <<"C", <<"c">>>>, <<"D", <<"d">>>>,
    <<"E", <<"e">>>>, <<"F", <<"f">>>>, <<"G", <<"g">>>>, <<"H", <<"h">>>>,
    <<"I", <<"i">>>>, <<"J", <<"j">>>>, <<"K", <<"k">>>>, <<"L", <<"l">>>>,
    <<"M", <<"m">>>>, <<"N", <<"n">>>>, <<"O", <<"o">>>>, <<"P", <<"p">>>>,
    <<"Q", <<"q">>>>, <<"R", <<"r">>>>, <<"S", <<"s">>>>, <<"T", <<"t">>>>,
    <<"U", <<"u">>>>, <<"V", <<"v">>>>, <<"W", <<"w">>>>, <<"X", <<"x">>>>,
    <<"Y", <<"y">>>>, <<"Z", <<"z">>>>, <<"À", <<"à">>>>, <<"Á", <<"á">>>>,
    <<"Â", <<"â">>>>, <<"Ã", <<"ã">>>>, <<"Ä", <<"ä">>>>, <<"Å", <<"å">>>>,
    <<"Æ", <<"æ">>>>, <<"Ç", <<"ç">>>>, <<"È", <<"è">>>>, <<"É", <<"é">>>>,
    <<"Ê", <<"ê">>>>, <<"Ë", <<"ë">>>>, <<"Ì", <<"ì">>>>, <<"Í", <<"í">>>>,
    <<"Î", <<"î">>>>, <<"Ï", <<"ï">>>>, <<"Ð", <<"ð">>>>, <<"Ñ", <<"ñ">>>>,
    <<"Ò", <<"ò">>>>, <<"Ó", <<"ó">>>>, <<"Ô", <<"ô">>>>, <<"Õ", <<"õ">>>>,
    <<"Ö", <<"ö">>>>, <<"Ø", <<"ø">>>>, <<"Ù", <<"ù">>>>, <<"Ú", <<"ú">>>>,
    <<"Û", <<"û">>>>, <<"Ü", <<"ü">>>>, <<"Ý", <<"ý">>>>, <<"Þ", <<"þ">>>> >>

Range(f) == {f[i] : i \in DOMAIN f}
IndexIn(c, alphabet) == CHOOSE i \in DOMAIN alphabet : alphabet[i] = c
LowerSet == Range(LowerChars)
UpperSet == Range(UpperChars)
DigitSet == Range(Digits)
DigitValue == [c \in DigitSet |-> IndexIn(c, Digits) - 1]

\* no value: evaluating it is an error
Undefined == CHOOSE x \in {} : TRUE

\* the row of a table for character c, or <<c>> where the table has none
Mapped(rows, c) ==
    IF \E i \in DOMAIN rows : rows[i][1] = c
    THEN rows[CHOOSE i \in DOMAIN rows : rows[i][1] = c][2]
    ELSE <<c>>

\* c.upper(), c.lower() and c.isspace() for the characters of Chars; applied
\* to any other character they have no value
ToUpper == [c \in Chars |-> Mapped(UpperRows, c)]
ToLower == [c \in Chars |-> Mapped(LowerRows, c)]
IsSpace == [c \in Chars |-> c \in Whitespace]

\* str.upper(), one character: a string, since the length may change
upper_char(c) == ToUpper[c]
\* str.lower(), one character
lower_char(c) == ToLower[c]
\* str.isspace(), one character
is_space(c) == IsSpace[c]

RECURSIVE upper(_)
\* str.upper()
upper(s) == IF s = <<>> THEN <<>> ELSE upper_char(Head(s)) \o upper(Tail(s))
RECURSIVE lower(_)
\* str.lower()
lower(s) == IF s = <<>> THEN <<>> ELSE lower_char(Head(s)) \o lower(Tail(s))

\* str.strip(): drop leading and trailing whitespace
RECURSIVE first_kept(_, _)
\* the first position from i on that holds no whitespace, or Len(s) + 1
first_kept(s, i) ==
    IF i > Len(s) \/ ~is_space(s[i]) THEN i ELSE first_kept(s, i + 1)
RECURSIVE last_kept(_, _)
\* the last position up to i that holds no whitespace, or 0
last_kept(s, i) ==
    IF i < 1 \/ ~is_space(s[i]) THEN i ELSE last_kept(s, i - 1)
strip(s) == SubSeq(s, first_kept(s, 1), last_kept(s, Len(s)))

\* str.replace(old, ""), old a single character
RECURSIVE remove_char(_, _)
remove_char(s, old) ==
    IF s = <<>> THEN <<>>
    ELSE IF Head(s) = old THEN remove_char(Tail(s), old)
    ELSE <<Head(s)>> \o remove_char(Tail(s), old)

\* str.split(sep), sep a single character: always at least one piece
RECURSIVE split_from(_, _, _, _)
\* the pieces of s from position start on, scanning from position i
split_from(s, sep, start, i) ==
    IF i > Len(s) THEN <<SubSeq(s, start, Len(s))>>
    ELSE IF s[i] = sep
    THEN <<SubSeq(s, start, i - 1)>> \o split_from(s, sep, i + 1, i + 1)
    ELSE split_from(s, sep, start, i + 1)
split(s, sep) == split_from(s, sep, 1, 1)

(***************************************************************************)
(* Numbers                                                                 *)
(*                                                                         *)
(* A float is sign * m / 10^e, or nan, or sign * inf.  The model has a     *)
(* value for a float only where the decimal is the float exactly as Python *)
(* prints it: m within TLC's integers and the value no smaller than        *)
(* 10^-FLOAT_MIN_10_EXP; elsewhere an operator has no value.               *)
(***************************************************************************)
Float(sign, m, e) ==
    [none |-> FALSE, special |-> "", sign |-> sign, m |-> m, e |-> e]
\* the decimal m / 10^e
Num(m, e) == Float(1, m, e)
NaN == [none |-> FALSE, special |-> "nan", sign |-> 1, m |-> 0, e |-> 0]
Infinity(sign) ==
    [none |-> FALSE, special |-> "inf", sign |-> sign, m |-> 0, e |-> 0]
\* Python None where a number is expected
NoneNum == [none |-> TRUE, special |-> "", sign |-> 1, m |-> 0, e |-> 0]

\* sys.float_info.min_10_exp is -307: above 10^-307 a double is normal
FLOAT_MIN_10_EXP == 307

RECURSIVE digits_value(_)
digits_value(s) ==
    IF s = <<>> THEN 0
    ELSE 10 * digits_value(SubSeq(s, 1, Len(s) - 1))
         + DigitValue[s[Len(s)]]

\* digitpart: digits, with single underscores allowed between two digits; no
\* value where a character lies outside Chars
digitpart_ok(s) ==
    /\ s # <<>>
    /\ \A i \in DOMAIN s :
          \/ (is_space(s[i]) \in BOOLEAN /\ s[i] \in DigitSet)
          \/ (s[i] = "_" /\ 1 < i /\ i < Len(s)
                /\ s[i - 1] \in DigitSet /\ s[i + 1] \in DigitSet)

RECURSIVE pow10(_)
pow10(k) == IF k = 0 THEN 1 ELSE 10 * pow10(k - 1)

RECURSIVE digit_count(_)
digit_count(m) == IF m < 10 THEN 1 ELSE 1 + digit_count(m \div 10)

\* trailing zeros of the fraction carry no value: 1.50 = 1.5
RECURSIVE normalise(_, _, _)
normalise(sign, m, e) ==
    IF e > 0 /\ m % 10 = 0 THEN normalise(sign, m \div 10, e - 1)
    ELSE Float(sign, m, e)

\* What float() drops around the literal: of the characters of Chars, the
\* ASCII ones with C's isspace() and the two beyond ASCII with c.isspace().
\* U+001C to U+001F, which str.strip() removes, stay and spoil the literal.
FloatWhitespace == { "\t", "\n", "", "\f", "\r", " ", "", " " }
IsFloatSpace == [c \in Chars |-> c \in FloatWhitespace]
is_float_space(c) == IsFloatSpace[c]

RECURSIVE float_first_kept(_, _)
\* the first position from i on that float() keeps, or Len(s) + 1
float_first_kept(s, i) ==
    IF i > Len(s) \/ ~is_float_space(s[i]) THEN i
    ELSE float_first_kept(s, i + 1)
RECURSIVE float_last_kept(_, _)
\* the last position up to i that float() keeps, or 0
float_last_kept(s, i) ==
    IF i < 1 \/ ~is_float_space(s[i]) THEN i
    ELSE float_last_kept(s, i - 1)
\* the literal without the whitespace around it
float_strip(s) ==
    SubSeq(s, float_first_kept(s, 1), float_last_kept(s, Len(s)))

\* the sign of a stripped literal, and the literal without it
sign_of(t) == IF t # <<>> /\ t[1] = "-" THEN -1 ELSE 1
unsigned(t) == IF t # <<>> /\ t[1] \in {"+", "-"} THEN Tail(t) ELSE t
float_body(s) == unsigned(float_strip(s))

\* the position of the first exponent marker in a body, or 0
RECURSIVE exponent_at(_, _)
exponent_at(b, i) ==
    IF i > Len(b) THEN 0
    ELSE IF b[i] \in {"e", "E"} THEN i
    ELSE exponent_at(b, i + 1)

\* the parts of a mantissa already split at its dots and of an exponent:
\* integer part, fraction, number of dots, exponent sign and digits
parts_of(p, has_exp, ex) ==
    [ip |-> p[1],
     fp |-> IF Len(p) >= 2 THEN p[2] ELSE <<>>,
     dots |-> Len(p) - 1,
     has_exp |-> has_exp,
     exp_sign |-> sign_of(ex),
     exp_digits |-> unsigned(ex)]
\* a body with its exponent marker at position k (0: none)
split_body(b, k) ==
    IF k = 0 THEN parts_of(split(b, "."), FALSE, <<>>)
    ELSE parts_of(split(SubSeq(b, 1, k - 1), "."), TRUE,
                  SubSeq(b, k + 1, Len(b)))
body_parts(b) == split_body(b, exponent_at(b, 1))
float_parts(s) == body_parts(float_body(s))

InfinityWords == { <<"i","n","f">>, <<"i","n","f","i","n","i","t","y">> }
NanWords == { <<"n","a","n">> }
\* a body of ASCII letters in lower case, else the empty string
word_of(b) ==
    IF \A i \in DOMAIN b : b[i] \in LowerSet \cup UpperSet
    THEN lower(b) ELSE <<>>
float_word(s) == word_of(float_body(s))

\* [sign] [digitpart] ["." [digitpart]] [("e" | "E") [sign] digitpart], with
\* a digit before or after the dot
parts_ok(p) ==
    /\ p.dots <= 1
    /\ p.ip = <<>> \/ digitpart_ok(p.ip)
    /\ p.fp = <<>> \/ digitpart_ok(p.fp)
    /\ p.ip # <<>> \/ p.fp # <<>>
    /\ p.has_exp => digitpart_ok(p.exp_digits)

\* float(s) succeeds; FALSE where float raises ValueError
float_ok(s) ==
    \/ float_word(s) \in InfinityWords \cup NanWords
    \/ parts_ok(float_parts(s))

\* sign * m / 10^e as a float
float_value(sign, m, e) ==
    IF m = 0 THEN Float(sign, 0, 0)
    ELSE IF e - digit_count(m) >= FLOAT_MIN_10_EXP THEN Undefined
    ELSE IF e < 0 THEN Float(sign, m * pow10(-e), 0)
    ELSE normalise(sign, m, e)
\* from the digits of the three parts, underscores removed
float_digits(sign, ip, fp, exp_sign, x) ==
    float_value(sign, digits_value(ip \o fp),
                Len(fp) - exp_sign * digits_value(x))
float_number(sign, p) ==
    float_digits(sign, remove_char(p.ip, "_"), remove_char(p.fp, "_"),
                 p.exp_sign, remove_char(p.exp_digits, "_"))
float_special(sign, word) ==
    IF word \in NanWords THEN NaN ELSE Infinity(sign)

\* float(s), for s with float_ok(s)
float_stripped(t) ==
    IF word_of(unsigned(t)) \in InfinityWords \cup NanWords
    THEN float_special(sign_of(t), word_of(unsigned(t)))
    ELSE float_number(sign_of(t), body_parts(unsigned(t)))
float(s) == float_stripped(float_strip(s))

(***************************************************************************)
(* Helpers of main.py                                                      *)
(***************************************************************************)
\* ok(data): the dictionary a handler returns
ok(data) == [raised |-> FALSE, status |-> 200,
             body |-> [ok |-> TRUE, data |-> data]]

\* fail(msg, status): raise HTTPException(status, msg); msg is the message's
\* fixed prefix together with the exception it quotes
fail(msg, status) == [raised |-> TRUE, status |-> status, detail |-> msg]

\* the default of fail's status parameter
DEFAULT_FAIL_STATUS == 502

\* the text of an error message: its fixed prefix and the exception quoted
Msg(prefix, exc) == [prefix |-> prefix, exc |-> exc]

(***************************************************************************)
(* GET /crypto/price/{coin_id}                                             *)
(*                                                                         *)
(* A CoinGecko answer is [kind |-> "error", exc] when fetch_json raises,   *)
(* [kind |-> "json", data] with data a dict (a function from ids to dicts) *)
(* or [kind |-> "json_array", items] when the body is a JSON list.         *)
(***************************************************************************)
\* faulty variant: the request is sent twice
crypto_calls_retry(coin_id) ==
    << [provider |-> "coingecko",
        params |-> [ids |-> lower(coin_id), vs_currencies |-> "usd"]],
       [provider |-> "coingecko",
        params |-> [ids |-> lower(coin_id), vs_currencies |-> "usd"]] >>
\* the outbound calls of crypto_price: one, for the one id
crypto_calls(coin_id) ==
    << [provider |-> "coingecko",
        params |-> [ids |-> lower(coin_id), vs_currencies |-> "usd"]] >>

crypto_price(coin_id, resp) ==
    IF resp.kind = "error"
    THEN fail(Msg("coingecko error", resp.exc), DEFAULT_FAIL_STATUS)
    ELSE IF resp.kind = "json_array"
    THEN IF \E k \in DOMAIN resp.items : resp.items[k] = lower(coin_id)
         THEN fail(Msg("coingecko error", "TypeError"), DEFAULT_FAIL_STATUS)
         ELSE ok([id |-> coin_id, usd |-> NoneNum, note |-> "coin not found"])
    ELSE IF lower(coin_id) \notin DOMAIN resp.data
    THEN ok([id |-> coin_id, usd |-> NoneNum, note |-> "coin not found"])
    ELSE IF "usd" \notin DOMAIN resp.data[lower(coin_id)]
    THEN fail(Msg("coingecko error", "KeyError"), DEFAULT_FAIL_STATUS)
    ELSE ok([id |-> coin_id, usd |-> resp.data[lower(coin_id)].usd])

(***************************************************************************)
(* GET /stock/price/{ticker}                                               *)
(*                                                                         *)
(* A Stooq answer is [kind |-> "error", exc] when fetch_text raises, or    *)
(* [kind |-> "text", rows]: the rows csv.reader yields for the body, each  *)
(* a sequence of fields.                                                   *)
(***************************************************************************)
US_SUFFIX == <<".", "U", "S">>
\* sym = f"{ticker.upper()}.US"
stock_sym(ticker) == upper(ticker) \o US_SUFFIX

stock_calls(ticker) ==
    << [provider |-> "stooq", params |-> [s |-> stock_sym(ticker), i |-> "d"]] >>

\* close_str not in ("N/D", "N/A", "")
NoDataStrings == { <<"N", "/", "D">>, <<"N", "/", "A">>, <<>> }

stock_price(ticker, resp) ==
    IF resp.kind = "error"
    THEN fail(Msg("stooq error", resp.exc), DEFAULT_FAIL_STATUS)
    ELSE LET rows == resp.rows
             sym == stock_sym(ticker)
         IN  IF Len(rows) >= 2
             THEN IF Len(rows[2]) < 1
                  THEN fail(Msg("stooq error", "IndexError"), DEFAULT_FAIL_STATUS)
                  ELSE IF upper(rows[2][1]) = upper(sym)
                  THEN IF Len(rows[2]) < 7
                       THEN fail(Msg("stooq error", "IndexError"),
                                 DEFAULT_FAIL_STATUS)
                       ELSE LET close_str == rows[2][7]
                            IN  IF close_str \in NoDataStrings
                                THEN ok([ticker |-> upper(ticker),
                                         price |-> NoneNum, source |-> "stooq"])
                                ELSE IF float_ok(close_str)
                                THEN ok([ticker |-> upper(ticker),
                                         price |-> float(close_str),
                                         source |-> "stooq"])
                                ELSE fail(Msg("stooq error", "ValueError"),
                                          DEFAULT_FAIL_STATUS)
                  ELSE ok([ticker |-> upper(ticker), price |-> NoneNum,
                           note |-> "not found"])
             ELSE ok([ticker |-> upper(ticker), price |-> NoneNum,
                      note |-> "not found"])

(***************************************************************************)
(* GET /forex/price/{pair}                                                 *)
(*                                                                         *)
(* An exchangerate.host answer is [kind |-> "error", exc], [kind |->       *)
(* "json", data] with data a dict, or [kind |-> "json_array", items].      *)
(***************************************************************************)
PAIR_LENGTH == 6
BASE_LENGTH == 3

\* pair.upper().strip().replace("/", "")
forex_pair(pair) == remove_char(strip(upper(pair)), "/")

\* the local check: len(pair) != 6 raises 400 before anything is fetched
forex_rejects(pair) == Len(forex_pair(pair)) # PAIR_LENGTH

forex_calls(pair) ==
    IF forex_rejects(pair) THEN <<>>
    ELSE << [provider |-> "exchangerate",
             params |-> [from |-> SubSeq(forex_pair(pair), 1, BASE_LENGTH),
                         to |-> SubSeq(forex_pair(pair), BASE_LENGTH + 1,
                                       Len(forex_pair(pair)))]] >>

\* resp is read only when the pair passes the local check
forex_price(pair, resp) ==
    IF forex_rejects(pair)
    THEN fail(Msg("pair must be like EURUSD", ""), 400)
    ELSE IF resp.kind = "error"
    THEN fail(Msg("fx error", resp.exc), DEFAULT_FAIL_STATUS)
    ELSE IF resp.kind = "json_array"
    THEN fail(Msg("fx error", "AttributeError"), DEFAULT_FAIL_STATUS)
    ELSE ok([pair |-> forex_pair(pair),
             rate |-> IF "result" \in DOMAIN resp.data
                      THEN resp.data.result ELSE NoneNum])

(***************************************************************************)
(* POST /chat                                                              *)
(***************************************************************************)
\* (payload.get(key) or default): a missing key and an empty string both
\* give the default
get_or(payload, key, default) ==
    IF key \in DOMAIN payload /\ payload[key] # <<>> THEN payload[key]
    ELSE default

chat_question(payload) == strip(get_or(payload, "question", <<>>))
chat_lang(payload) == strip(get_or(payload, "lang", <<"e", "n">>))

\* faulty variant: the client is not checked
chat_rejects_question_only(client, payload) ==
    chat_question(payload) = <<>>
\* the two early exits of chat, in the order the code takes them
chat_rejects(client, payload) ==
    client = "None" \/ chat_question(payload) = <<>>

chat_rejection(client, payload) ==
    IF client = "None"
    THEN fail(Msg("AI is not configured (set OPENAI_API_KEY).", ""), 400)
    ELSE fail(Msg("question is required", ""), 400)

\* [x.strip() for x in raw.split(",") if x.strip()]
RECURSIVE stripped_nonempty(_)
stripped_nonempty(pieces) ==
    IF pieces = <<>> THEN <<>>
    ELSE IF strip(Head(pieces)) # <<>>
    THEN <<strip(Head(pieces))>> \o stripped_nonempty(Tail(pieces))
    ELSE stripped_nonempty(Tail(pieces))

chat_tickers(payload) ==
    LET raw == strip(get_or(payload, "tickers", <<>>))
        kept == stripped_nonempty(split(raw, ","))
    IN  [k \in DOMAIN kept |-> upper(kept[k])]

chat_coins(payload) ==
    LET raw == strip(get_or(payload, "coins", <<>>))
        kept == stripped_nonempty(split(raw, ","))
    IN  [k \in DOMAIN kept |-> lower(kept[k])]

\* the slice bounds of the two loops: tickers[:8], coins[:8]
TICKERS_LIMIT == 8
COINS_LIMIT == 8

\* faulty variant: the slice bound is dropped
list_head_all(xs, n) == xs
\* xs[:n]
list_head(xs, n) == SubSeq(xs, 1, IF Len(xs) < n THEN Len(xs) ELSE n)

\* one body of the stock loop: the line it adds for ticker t, given what
\* stock_price(t) returned or raised
chat_stock_line(t, r) ==
    IF r.raised
    THEN [kind |-> "Stock", item |-> t, label |-> "price",
          unavailable |-> TRUE, value |-> NoneNum]
    ELSE [kind |-> "Stock", item |-> t, label |-> "price (stooq)",
          unavailable |-> FALSE, value |-> r.body.data.price]

\* faulty variant: a failed lookup is written as a price of None
chat_crypto_line_silent(c, r) ==
    [kind |-> "Crypto", item |-> c, label |-> "price (usd)",
     unavailable |-> FALSE,
     value |-> IF r.raised THEN NoneNum ELSE r.body.data.usd]
\* one body of the crypto loop
chat_crypto_line(c, r) ==
    IF r.raised
    THEN [kind |-> "Crypto", item |-> c, label |-> "price",
          unavailable |-> TRUE, value |-> NoneNum]
    ELSE [kind |-> "Crypto", item |-> c, label |-> "price (usd)",
          unavailable |-> FALSE, value |-> r.body.data.usd]

\* faulty variant: the line is inserted at the front
append_line_front(lines, line) == <<line>> \o lines
\* context_lines.append(line)
append_line(lines, line) == Append(lines, line)

NO_PRICES_LINE ==
    [kind |-> "No live prices fetched.", item |-> <<>>, label |-> "",
     unavailable |-> FALSE, value |-> NoneNum]

\* "\n".join(context_lines) if context_lines else "No live prices fetched."
chat_context(lines) ==
    IF lines # <<>> THEN lines ELSE <<NO_PRICES_LINE>>

\* the request handed to openai_client.responses.create
chat_llm_request(payload, lines) ==
    [model |-> "gpt-5-mini",
     input |-> << [role |-> "system", content |-> "SYSTEM_PROMPT"],
                  [role |-> "user",
                   content |-> [lang |-> chat_lang(payload),
                                question |-> chat_question(payload),
                                context |-> chat_context(lines)]] >>]

NO_AI_OUTPUT == <<"N","o"," ","A","I"," ","o","u","t","p","u","t",".">>

\* What chat returns or raises after the LLM call.  An LLM answer is
\* [kind |-> "error", exc] when responses.create raises, else [kind |->
\* "response", has_text, is_str, text]: whether the object has an output_text
\* attribute, whether that is a str (None is not), and its text.
chat_reply(ans) ==
    IF ans.kind = "error"
    THEN fail(Msg("AI error", ans.exc), DEFAULT_FAIL_STATUS)
    ELSE IF ans.has_text /\ ~ans.is_str
    THEN fail(Msg("AI error", "AttributeError"), DEFAULT_FAIL_STATUS)
    ELSE LET text == strip(IF ans.has_text THEN ans.text ELSE <<>>)
         IN  [raised |-> FALSE, status |-> 200,
              body |-> [ok |-> TRUE,
                        reply |-> IF text # <<>> THEN text ELSE NO_AI_OUTPUT]]

(***************************************************************************)
(* The providers: what each may answer to one call                         *)
(***************************************************************************)
FetchErrors == {"ConnectError", "ReadTimeout", "HTTPStatusError"}

CSV_HEADER == << <<"S">>, <<"D">>, <<"T">>, <<"O">>, <<"H">>, <<"L">>,
                 <<"C">>, <<"V">> >>
\* a data row for symbol sym with the given close
csv_row(sym, close) ==
    << sym, <<"d">>, <<"t">>, <<"1">>, <<"2">>, <<"3">>, close, <<"5">> >>

\* a body that csv.reader reads as the given rows
TextAnswers(bodies) == { [kind |-> "text", rows |-> rows] : rows \in bodies }

\* closes that are a price: one price, written two ways
StooqPrices ==
    { <<"1","8","9",".","9","7">>, <<" ","+","1",".","8","9","9","7","e","2">> }

\* further closes, sent in condition "any" to GET /stock/price
StooqOddCloses ==
    { <<"-","1",".","5">>, <<"1","e","3">>, <<"1","E","-","2">>,
      <<"+",".","5">>, <<"2",".">>, <<"1","_","0","0","0">>,
      <<"n","a","n">>, <<"-","I","n","f">>, <<"I","n","f","i","n","i","t","y">>,
      <<" ","7","","\t">>, <<"-","0">>, <<"N","/","A">>,
      <<"1","_","_","0">>, <<"_","1">>, <<"1","e">>, <<".">>,
      <<"1",".","2",".","3">>, <<"+","-","1">>, <<"1"," ","2">>,
      <<"1","e","1",".","5">>, <<"²">>, <<"7","">>,
      <<"","1","8","9",".","9","7">>, <<"","7","\f">> }

\* fetch_text / fetch_json raise
FetchFailures == [kind : {"error"}, exc : FetchErrors]

\* Stooq answers with a price for ticker t
StooqUp(t) ==
    TextAnswers(
        { <<CSV_HEADER, csv_row(stock_sym(t), c)>> : c \in StooqPrices }
        \cup { <<CSV_HEADER, csv_row(lower(stock_sym(t)),
                                     <<"1","8","9",".","9","7","0">>)>> })
\* Stooq answers, and has no price for ticker t
StooqUnlisted(t) ==
    TextAnswers({ <<>>,
                  <<CSV_HEADER>>,
                  <<CSV_HEADER, csv_row(stock_sym(t), <<"N","/","D">>)>>,
                  <<CSV_HEADER, csv_row(stock_sym(t), <<>>)>>,
                  <<CSV_HEADER, csv_row(<<"N","/","D">>, <<"N","/","D">>)>> })
\* Stooq answers with rows the handler cannot read
StooqMalformed(t) ==
    TextAnswers({ <<CSV_HEADER, <<>>>>,
                  <<CSV_HEADER, <<stock_sym(t), <<"d">>>>>>,
                  <<CSV_HEADER, csv_row(stock_sym(t), <<"a","b","c">>)>> })

\* the answers Stooq may give to a request for ticker t, the given closes
\* among them
StooqAnswers(t, closes) ==
    FetchFailures \cup StooqUp(t) \cup StooqUnlisted(t) \cup StooqMalformed(t)
    \cup TextAnswers({ <<CSV_HEADER, csv_row(stock_sym(t), c)>> : c \in closes })

\* CoinGecko answers with a price for id c
CoinGeckoUp(c) ==
    { [kind |-> "json", data |-> lower(c) :> [usd |-> Num(65000, 0)]] }
\* CoinGecko answers, and does not know id c
CoinGeckoUnlisted(c) ==
    { [kind |-> "json", data |-> d] :
        d \in { <<"o","t","h","e","r">> :> [usd |-> Num(1, 0)], <<>> } }
\* CoinGecko answers with JSON of another shape
CoinGeckoMalformed(c) ==
    { [kind |-> "json_array", items |-> <<>>],
      [kind |-> "json", data |-> lower(c) :> [eur |-> Num(60000, 0)]] }

\* the answers CoinGecko may give to a request for id c
CoinGeckoAnswers(c) ==
    FetchFailures \cup CoinGeckoUp(c) \cup CoinGeckoUnlisted(c)
    \cup CoinGeckoMalformed(c)

\* The condition a price provider is in while one request is served: "down",
\* every call to it fails; "unlisted", it answers and has no price for the
\* symbol; "up", it answers with a price; "partial", it has a price for
\* some symbols, none for others and fails on the rest; "any", each call may
\* get any of its answers.
Conditions == {"any", "down", "partial", "unlisted", "up"}

\* how a provider in condition "partial" treats a symbol, told by the
\* symbol's last character
letter_index(c) ==
    IF c \in LowerSet THEN IndexIn(c, LowerChars)
    ELSE IF c \in UpperSet THEN IndexIn(c, UpperChars)
    ELSE 0
partial_condition(sym) ==
    IF sym = <<>> THEN "down"
    ELSE IF letter_index(sym[Len(sym)]) % 3 = 1 THEN "up"
    ELSE IF letter_index(sym[Len(sym)]) % 3 = 2 THEN "unlisted"
    ELSE "down"
condition_for(condition, sym) ==
    IF condition = "partial" THEN partial_condition(sym) ELSE condition

StooqAnswersWhen(condition, t, closes) ==
    IF condition_for(condition, t) = "down" THEN FetchFailures
    ELSE IF condition_for(condition, t) = "unlisted" THEN StooqUnlisted(t)
    ELSE IF condition_for(condition, t) = "up" THEN StooqUp(t)
    ELSE StooqAnswers(t, closes)

CoinGeckoAnswersWhen(condition, c) ==
    IF condition_for(condition, c) = "down" THEN FetchFailures
    ELSE IF condition_for(condition, c) = "unlisted" THEN CoinGeckoUnlisted(c)
    ELSE IF condition_for(condition, c) = "up" THEN CoinGeckoUp(c)
    ELSE CoinGeckoAnswers(c)

\* the answers exchangerate.host may give
ExchangeRateAnswers ==
    FetchFailures
    \cup { [kind |-> "json_array", items |-> <<>>] }
    \cup { [kind |-> "json", data |-> d] : d \in
             { [success |-> TRUE, result |-> Num(108, 2)],
               [success |-> TRUE, result |-> NoneNum],
               [success |-> FALSE, error |-> "missing_access_key"] } }

\* the answers of openai_client.responses.create
LLMAnswers ==
    [kind : {"error"}, exc : {"APIConnectionError", "RateLimitError"}]
    \cup { [kind |-> "response", has_text |-> TRUE, is_str |-> TRUE,
            text |-> t] :
             t \in { <<>>, <<" ", "\n">>, <<"", "">>,
                     <<" ", "o", "k", ".", "\n">> } }
    \cup { [kind |-> "response", has_text |-> FALSE, is_str |-> FALSE,
            text |-> <<>>],
           [kind |-> "response", has_text |-> TRUE, is_str |-> FALSE,
            text |-> <<>>] }

(***************************************************************************)
(* The requests served                                                     *)
(***************************************************************************)
RECURSIVE join(_, _)
\* sep.join(pieces)
join(pieces, sep) ==
    IF pieces = <<>> THEN <<>>
    ELSE IF Len(pieces) = 1 THEN pieces[1]
    ELSE pieces[1] \o <<sep>> \o join(Tail(pieces), sep)

\* the k-th token of a "tickers" field: every fifth one blank, the others a
\* two-letter lower-case name, some with whitespace around them
TickerToken(k) ==
    IF k % 5 = 0 THEN (IF k % 2 = 0 THEN <<>> ELSE <<" ">>)
    ELSE IF k % 3 = 1 THEN <<" ", "t", LowerChars[k], " ">>
    ELSE <<"t", LowerChars[k]>>

\* the k-th token of a "coins" field: every fourth one blank, the others a
\* two-letter upper-case name
CoinToken(k) ==
    IF k % 4 = 0 THEN (IF k % 8 = 0 THEN <<" ", " ">> ELSE <<>>)
    ELSE IF k % 3 = 2 THEN <<"C", UpperChars[k], " ">>
    ELSE <<"C", UpperChars[k]>>

TokenCounts == {0, 1, 2, 3, 4, MaxTokens}

TickersField(n) == join([k \in 1..n |-> TickerToken(k)], ",")
CoinsField(n) == join([k \in 1..n |-> CoinToken(k)], ",")

Questions == { <<>>, <<" ", "", " ">>, <<"", "w", "h", "y", "?", " ">> }

ChatPayloads ==
    { [question |-> q, tickers |-> TickersField(n), coins |-> CoinsField(m)] :
        q \in Questions, n \in TokenCounts, m \in TokenCounts }
    \cup { [tickers |-> TickersField(2)],
           [question |-> <<"w", "h", "y", "?">>],
           [question |-> <<"w", "h", "y", "?">>, lang |-> <<" ", "e", "l">>,
            coins |-> CoinsField(1)],
           [question |-> <<"w", "h", "y", "?">>,
            tickers |-> <<"é", "u", "ß", "", ",", "">>,
            coins |-> <<" ", "É", "T", "H">>] }

CoinIds == { <<"b","i","t","c","o","i","n">>, <<"B","i","t","c","o","i","n">>,
             <<"x","x">>, <<"É","T","H">> }
Tickers == { <<"a","a","p","l">>, <<"M","S","F","T">>, <<"é","u","ß">> }
Pairs ==
    { <<"E","U","R","U","S","D">>, <<"e","u","r","u","s","d">>,
      <<"E","U","R","/","U","S","D">>, <<" ","E","U","R","U","S","D"," ">>,
      <<"E","U","R","U","S">>, <<"E","U","R","U","S","D","X">>,
      <<"E","U","R","1","S","D">>, <<"1","2","3","4","5","6">>,
      <<"E","U","/","U","S","D">>, <<" ">>,
      <<"E","U","R","U","S","D","">>, <<"","e","u","r","/","u","s","d"," ">>,
      <<"s","t","r","a","ß","e">>, <<"E","U","R","U","ß">> }

Requests ==
    [endpoint : {"chat"}, payload : ChatPayloads]
    \cup [endpoint : {"crypto"}, coin_id : CoinIds]
    \cup [endpoint : {"stock"}, ticker : Tickers]
    \cup [endpoint : {"forex"}, pair : Pairs]

(***************************************************************************)
(* The state machine                                                       *)
(***************************************************************************)
NO_RESPONSE == [raised |-> FALSE, status |-> 0]
NOTHING_FETCHED == [kind |-> "none"]

\* module level: OpenAI(api_key=...) if OPENAI_API_KEY else None, and None
\* when the openai package cannot be imported
make_client(key_set, importable) ==
    IF importable /\ key_set THEN "OpenAI" ELSE "None"

\* the lookups a request makes at a provider in condition "any"
MixedLookups(req, conditions) ==
    IF req.endpoint # "chat" THEN 0
    ELSE (IF conditions.stooq = "any"
          THEN Len(list_head(chat_tickers(req.payload), TICKERS_LIMIT))
          ELSE 0)
         + (IF conditions.coingecko = "any"
            THEN Len(list_head(chat_coins(req.payload), COINS_LIMIT))
            ELSE 0)

\* calls holds the requests sent to the price providers, each added when it
\* is sent; outcomes holds, for each lookup that has come back, whether the
\* adapter raised.  llm_calls and llm_outcomes do the same for the LLM.
Init ==
    /\ \E key_set \in BOOLEAN, importable \in BOOLEAN :
           openai_client = make_client(key_set, importable)
    /\ request \in Requests
    /\ providers \in [stooq : Conditions, coingecko : Conditions]
    /\ MixedLookups(request, providers) <= MaxMixedLookups
    /\ pc = "start"
    /\ tickers = <<>>
    /\ coins = <<>>
    /\ idx = 0
    /\ context_lines = <<>>
    /\ calls = <<>>
    /\ outcomes = <<>>
    /\ llm_calls = <<>>
    /\ llm_outcomes = <<>>
    /\ fetched = NOTHING_FETCHED
    /\ response = NO_RESPONSE

\* crypto_price up to "await fetch_json(...)": the request is sent
CryptoPriceCall ==
    /\ pc = "start" /\ request.endpoint = "crypto"
    /\ calls' = calls \o crypto_calls(request.coin_id)
    /\ pc' = "fetching"
    /\ UNCHANGED <<openai_client, request, tickers, coins, idx, context_lines,
                   outcomes, llm_calls, llm_outcomes, fetched, response,
                   providers>>

\* crypto_price from the await on: the answer is in, or fetch_json raised
CryptoPriceResume ==
    /\ pc = "fetching" /\ request.endpoint = "crypto"
    /\ \E resp \in CoinGeckoAnswersWhen(providers.coingecko,
                                        request.coin_id) :
         LET r == crypto_price(request.coin_id, resp)
         IN  /\ outcomes' = Append(outcomes, r.raised)
             /\ fetched' = resp
             /\ response' = r
    /\ pc' = "done"
    /\ UNCHANGED <<openai_client, request, tickers, coins, idx, context_lines,
                   calls, llm_calls, llm_outcomes,
                   providers>>

\* stock_price up to "await fetch_text(...)"
StockPriceCall ==
    /\ pc = "start" /\ request.endpoint = "stock"
    /\ calls' = calls \o stock_calls(request.ticker)
    /\ pc' = "fetching"
    /\ UNCHANGED <<openai_client, request, tickers, coins, idx, context_lines,
                   outcomes, llm_calls, llm_outcomes, fetched, response,
                   providers>>

\* stock_price from the await on
StockPriceResume ==
    /\ pc = "fetching" /\ request.endpoint = "stock"
    /\ \E resp \in StooqAnswersWhen(providers.stooq, request.ticker,
                                    StooqOddCloses) :
         LET r == stock_price(request.ticker, resp)
         IN  /\ outcomes' = Append(outcomes, r.raised)
             /\ fetched' = resp
             /\ response' = r
    /\ pc' = "done"
    /\ UNCHANGED <<openai_client, request, tickers, coins, idx, context_lines,
                   calls, llm_calls, llm_outcomes,
                   providers>>

\* forex_price up to "await fetch_json(...)", or to the 400 of the local check
ForexPriceCall ==
    /\ pc = "start" /\ request.endpoint = "forex"
    /\ calls' = calls \o forex_calls(request.pair)
    /\ IF forex_rejects(request.pair)
       THEN /\ response' = forex_price(request.pair, NOTHING_FETCHED)
            /\ pc' = "done"
       ELSE /\ response' = response
            /\ pc' = "fetching"
    /\ UNCHANGED <<openai_client, request, tickers, coins, idx, context_lines,
                   outcomes, llm_calls, llm_outcomes, fetched,
                   providers>>

\* forex_price from the await on
ForexPriceResume ==
    /\ pc = "fetching" /\ request.endpoint = "forex"
    /\ \E resp \in ExchangeRateAnswers :
         LET r == forex_price(request.pair, resp)
         IN  /\ outcomes' = Append(outcomes, r.raised)
             /\ fetched' = resp
             /\ response' = r
    /\ pc' = "done"
    /\ UNCHANGED <<openai_client, request, tickers, coins, idx, context_lines,
                   calls, llm_calls, llm_outcomes,
                   providers>>

\* where chat goes once the stock loop is over, and where it starts
after_stocks(cs) ==
    IF list_head(cs, COINS_LIMIT) # <<>> THEN "crypto" ELSE "llm"
after_start(ts, cs) ==
    IF list_head(ts, TICKERS_LIMIT) # <<>> THEN "stocks" ELSE after_stocks(cs)

\* chat up to its first await: the two checks and the parsing
ChatStart ==
    /\ pc = "start" /\ request.endpoint = "chat"
    /\ IF chat_rejects(openai_client, request.payload)
       THEN /\ response' = chat_rejection(openai_client, request.payload)
            /\ pc' = "done"
            /\ UNCHANGED <<tickers, coins>>
       ELSE /\ tickers' = chat_tickers(request.payload)
            /\ coins' = chat_coins(request.payload)
            /\ pc' = after_start(chat_tickers(request.payload),
                                 chat_coins(request.payload))
            /\ UNCHANGED response
    /\ UNCHANGED <<openai_client, request, idx, context_lines, calls,
                   outcomes, llm_calls, llm_outcomes, fetched,
                   providers>>

\* one iteration of "for t in tickers[:8]", up to the await inside
\* stock_price(t)
ChatStockCall ==
    /\ pc = "stocks"
    /\ idx < Len(list_head(tickers, TICKERS_LIMIT))
    /\ calls' = calls \o stock_calls(list_head(tickers, TICKERS_LIMIT)[idx + 1])
    /\ pc' = "stocks_await"
    /\ UNCHANGED <<openai_client, request, tickers, coins, idx, context_lines,
                   outcomes, llm_calls, llm_outcomes, fetched, response,
                   providers>>

\* the rest of the iteration: stock_price(t) returns or raises, the line is
\* appended, the loop moves on
ChatStockResume ==
    /\ pc = "stocks_await"
    /\ LET t == list_head(tickers, TICKERS_LIMIT)[idx + 1]
       IN  \E resp \in StooqAnswersWhen(providers.stooq, t, {}) :
             LET r == stock_price(t, resp)
             IN  /\ outcomes' = Append(outcomes, r.raised)
                 /\ context_lines' =
                        append_line(context_lines, chat_stock_line(t, r))
    /\ IF idx + 1 < Len(list_head(tickers, TICKERS_LIMIT))
       THEN idx' = idx + 1 /\ pc' = "stocks"
       ELSE idx' = 0 /\ pc' = after_stocks(coins)
    /\ UNCHANGED <<openai_client, request, tickers, coins, calls, llm_calls,
                   llm_outcomes, fetched, response,
                   providers>>

\* one iteration of "for c in coins[:8]", up to the await inside
\* crypto_price(c)
ChatCryptoCall ==
    /\ pc = "crypto"
    /\ idx < Len(list_head(coins, COINS_LIMIT))
    /\ calls' = calls \o crypto_calls(list_head(coins, COINS_LIMIT)[idx + 1])
    /\ pc' = "crypto_await"
    /\ UNCHANGED <<openai_client, request, tickers, coins, idx, context_lines,
                   outcomes, llm_calls, llm_outcomes, fetched, response,
                   providers>>

\* the rest of the iteration
ChatCryptoResume ==
    /\ pc = "crypto_await"
    /\ LET c == list_head(coins, COINS_LIMIT)[idx + 1]
       IN  \E resp \in CoinGeckoAnswersWhen(providers.coingecko, c) :
             LET r == crypto_price(c, resp)
             IN  /\ outcomes' = Append(outcomes, r.raised)
                 /\ context_lines' =
                        append_line(context_lines, chat_crypto_line(c, r))
    /\ IF idx + 1 < Len(list_head(coins, COINS_LIMIT))
       THEN idx' = idx + 1 /\ pc' = "crypto"
       ELSE idx' = 0 /\ pc' = "llm"
    /\ UNCHANGED <<openai_client, request, tickers, coins, calls, llm_calls,
                   llm_outcomes, fetched, response,
                   providers>>

\* the prompt is built and openai_client.responses.create is entered
ChatLLMCall ==
    /\ pc = "llm"
    /\ llm_calls' = Append(llm_calls,
                           chat_llm_request(request.payload, context_lines))
    /\ pc' = "llm_call"
    /\ UNCHANGED <<openai_client, request, tickers, coins, idx, context_lines,
                   calls, outcomes, llm_outcomes, fetched, response,
                   providers>>

\* responses.create returns or raises, and chat returns or raises
ChatLLMReturn ==
    /\ pc = "llm_call"
    /\ \E ans \in LLMAnswers :
         /\ llm_outcomes' = Append(llm_outcomes, ans.kind = "error")
         /\ response' = chat_reply(ans)
    /\ pc' = "done"
    /\ UNCHANGED <<openai_client, request, tickers, coins, idx, context_lines,
                   calls, outcomes, llm_calls, fetched,
                   providers>>

\* the places where a handler is suspended in "await client.get(...)"
Awaiting == {"fetching", "stocks_await", "crypto_await"}

\* The task of the request is cancelled while suspended: CancelledError is
\* raised at the await, is no Exception, so passes every "except Exception",
\* and the handler ends without a response.
Cancel ==
    /\ pc \in Awaiting
    /\ pc' = "cancelled"
    /\ UNCHANGED <<openai_client, request, tickers, coins, idx, context_lines,
                   calls, outcomes, llm_calls, llm_outcomes, fetched, response,
                   providers>>

Next ==
    \/ CryptoPriceCall
    \/ CryptoPriceResume
    \/ StockPriceCall
    \/ StockPriceResume
    \/ ForexPriceCall
    \/ ForexPriceResume
    \/ ChatStart
    \/ ChatStockCall
    \/ ChatStockResume
    \/ ChatCryptoCall
    \/ ChatCryptoResume
    \/ ChatLLMCall
    \/ ChatLLMReturn
    \/ Cancel

Spec == Init /\ [][Next]_vars

(***************************************************************************)
(* Properties                                                              *)
(***************************************************************************)
IsChat == request.endpoint = "chat"
Finished == pc = "done"

\* a /chat request that passes both early checks
ChatAccepted ==
    /\ IsChat
    /\ openai_client = "OpenAI"
    /\ chat_question(request.payload) # <<>>

FirstN(xs, n) == [k \in 1..(IF Len(xs) < n THEN Len(xs) ELSE n) |-> xs[k]]

\* the handler's two lists are the request's fields, split at the commas,
\* without the blank pieces, in the order of the request
ParsedPayloads ==
    [p \in ChatPayloads |->
        [tickers |-> chat_tickers(p), coins |-> chat_coins(p)]]
RequestParsed ==
    /\ tickers = ParsedPayloads[request.payload].tickers
    /\ coins = ParsedPayloads[request.payload].coins

\* the lookups a /chat request asks for, in request order: its first 8
\* non-empty tickers, then its first 8 non-empty coins
WantedStocks == FirstN(tickers, 8)
WantedCoins == FirstN(coins, 8)
Wanted ==
    [k \in DOMAIN WantedStocks |-> [kind |-> "Stock", item |-> WantedStocks[k]]]
    \o [k \in DOMAIN WantedCoins |-> [kind |-> "Crypto", item |-> WantedCoins[k]]]

CallsTo(provider) == {k \in DOMAIN calls : calls[k].provider = provider}
\* the lookups to a provider that have come back with the adapter raising
FailedAt(provider) == {k \in CallsTo(provider) \cap DOMAIN outcomes : outcomes[k]}
AllLookupsFailed ==
    /\ outcomes # <<>>
    /\ Len(outcomes) = Len(calls)
    /\ \A k \in DOMAIN outcomes : outcomes[k]
LLMRaised == llm_outcomes # <<>> /\ llm_outcomes[1]

\* the context that the one LLM request carried
SentContext == llm_calls[1].input[2].content.context

\* C1: in /chat with a configured client and a non-empty question, every
\* failed price lookup is recorded as an "unavailable" line for its item (and
\* only failed ones are), no such failure ends the request, and the request
\* reaches the LLM call after all lookups.
C1_DegradeOverFail ==
    ChatAccepted =>
      LET wanted == Wanted
      IN  /\ Len(context_lines) = Len(outcomes)
          /\ Len(outcomes) <= Len(calls)
          /\ \A k \in DOMAIN outcomes :
                /\ context_lines[k].unavailable = outcomes[k]
                /\ context_lines[k].item = wanted[k].item
          /\ (response.raised => llm_calls # <<>>)
          /\ (pc \in {"llm", "llm_call", "done"} =>
                Len(outcomes) = Len(wanted) /\ Len(calls) = Len(wanted))
          /\ (Finished => Len(llm_calls) = 1)

\* C1 witness: a finished /chat in which a stock lookup and a crypto lookup
\* failed, another lookup succeeded, and the LLM was called.
C1_Witness ==
    /\ ChatAccepted /\ Finished /\ Len(llm_calls) = 1
    /\ FailedAt("stooq") # {}
    /\ FailedAt("coingecko") # {}
    /\ \E j \in DOMAIN outcomes : ~outcomes[j]

\* C2: when the LLM call raises, /chat still returns a normal result with a
\* non-empty reply.  The code does otherwise: chat turns every exception of
\* the LLM call into HTTPException 502 "AI error: <exception>".
C2_LLMFailureReturnsReply ==
    (IsChat /\ Finished /\ LLMRaised) =>
        /\ ~response.raised
        /\ response.body.reply # <<>>

\* C3: when every lookup of a /chat request fails, the request ends in a
\* hard error and nothing is forwarded to the LLM.  The code does otherwise:
\* each failing lookup leaves an "unavailable" line, and the LLM call
\* follows with those lines as its context.
C3_AllFailedIsHardError ==
    (IsChat /\ Finished /\ AllLookupsFailed) =>
        /\ response.raised
        /\ llm_calls = <<>>

\* C4: the gathered lines are in request order, one per looked-up item,
\* whatever the outcome of each lookup.
C4_RequestOrder ==
    IsChat =>
      LET wanted == Wanted
      IN  /\ Len(context_lines) <= Len(wanted)
          /\ \A k \in DOMAIN context_lines :
                /\ context_lines[k].kind = wanted[k].kind
                /\ context_lines[k].item = wanted[k].item
          /\ (pc # "start" /\ ChatAccepted => RequestParsed)
          /\ Len(outcomes) <= Len(calls) /\ Len(calls) <= Len(outcomes) + 1
          /\ (pc \in {"llm", "llm_call", "done"} /\ ChatAccepted
                  => Len(context_lines) = Len(wanted))

\* C4 witness: a finished /chat with two tickers and two coins where the
\* first lookup of each kind failed and the second returned a price.
C4_Witness ==
    /\ IsChat /\ Finished
    /\ Len(WantedStocks) = 2 /\ Len(WantedCoins) = 2
    /\ Len(context_lines) = 4
    /\ context_lines[1].unavailable /\ ~context_lines[2].unavailable
    /\ context_lines[3].unavailable /\ ~context_lines[4].unavailable

\* C5: without an LLM client, /chat makes no outbound call of any kind and
\* ends with the 400 "AI is not configured" error.
C5_NoClientNoCall ==
    (IsChat /\ openai_client = "None") =>
        /\ calls = <<>>
        /\ llm_calls = <<>>
        /\ pc \in {"start", "done"}
        /\ (Finished =>
              /\ response.raised
              /\ response.status = 400
              /\ response.detail.prefix
                   = "AI is not configured (set OPENAI_API_KEY).")

\* C5 witness: a finished /chat without a client whose payload has a
\* question, tickers and coins.
C5_Witness ==
    /\ IsChat /\ openai_client = "None" /\ Finished
    /\ chat_question(request.payload) # <<>>
    /\ chat_tickers(request.payload) # <<>>
    /\ chat_coins(request.payload) # <<>>

IsLetter(c) == c \in LowerSet \cup UpperSet
SixLetters(s) == Len(s) = 6 /\ \A k \in DOMAIN s : IsLetter(s[k])

\* C6 as stated: a pair that is not exactly 6 alphabetic characters is
\* rejected with a 400 and no outbound call is made for it.
C6_InvalidPairRejectedLocally ==
    (request.endpoint = "forex" /\ Finished /\ ~SixLetters(request.pair)) =>
        /\ response.raised
        /\ response.status = 400
        /\ calls = <<>>

\* the price of a successful price-endpoint response
QuotedPrice ==
    IF request.endpoint = "crypto" THEN response.body.data.usd
    ELSE IF request.endpoint = "stock" THEN response.body.data.price
    ELSE response.body.data.rate

\* the provider itself said "not found": CoinGecko answers a JSON object
\* without the id, Stooq a row for the symbol whose close is N/D or N/A,
\* exchangerate.host a result of null
ReportedNotFound ==
    IF request.endpoint = "crypto"
    THEN fetched.kind = "json" /\ lower(request.coin_id) \notin DOMAIN fetched.data
    ELSE IF request.endpoint = "stock"
    THEN /\ fetched.kind = "text"
         /\ Len(fetched.rows) >= 2
         /\ Len(fetched.rows[2]) >= 7
         /\ upper(fetched.rows[2][1]) = stock_sym(request.ticker)
         /\ fetched.rows[2][7] \in NoDataStrings \ {<<>>}
    ELSE /\ fetched.kind = "json"
         /\ "result" \in DOMAIN fetched.data

\* C7 as stated: a price endpoint returns a price of None only when the
\* provider reported the symbol as not found.
C7_NoneOnlyWhenNotFound ==
    (request.endpoint \in {"crypto", "stock", "forex"} /\ Finished
       /\ ~response.raised /\ QuotedPrice.none)
        => ReportedNotFound

\* C8 as stated: a /chat request naming at least one crypto id makes exactly
\* one call to the crypto provider.
C8_OneBatchedCall ==
    (IsChat /\ llm_calls # <<>> /\ Len(coins) >= 1)
        => Cardinality(CallsTo("coingecko")) = 1

\* C8 amended: a /chat request naming n crypto ids makes min(n, 8) calls to
\* the crypto provider, one per looked-up id, each carrying that single id,
\* in request order; GET /crypto/price/{id} makes exactly one.
C8_OneCallPerId ==
    /\ (IsChat /\ llm_calls # <<>>) =>
          LET stocks == WantedStocks
              wcoins == WantedCoins
          IN  /\ Cardinality(CallsTo("coingecko")) = Len(wcoins)
              /\ \A k \in DOMAIN wcoins :
                    LET c == calls[Len(stocks) + k]
                    IN  c.provider = "coingecko" /\ c.params.ids = wcoins[k]
    /\ (request.endpoint = "crypto" /\ Finished) =>
          Cardinality(CallsTo("coingecko")) = 1

\* C8 witness: a finished /chat that named more than 8 coins and looked up 8.
C8_Witness ==
    /\ IsChat /\ Finished /\ llm_calls # <<>>
    /\ Len(coins) > 8
    /\ Cardinality(CallsTo("coingecko")) = 8

\* C9 as stated: every normal /chat response carries a disclaimer that the
\* service itself adds.
C9_DisclaimerAlwaysPresent ==
    (IsChat /\ Finished /\ ~response.raised) =>
        "disclaimer" \in DOMAIN response.body

\* C10: /chat looks up only the first 8 non-empty tickers and the first 8
\* non-empty coins, stocks before coins, in request order; it makes at most
\* one LLM call, only after every lookup, and the context has one line per
\* lookup (at most 16).
C10_BoundedFanOut ==
    IsChat =>
      LET stocks == WantedStocks
          wcoins == WantedCoins
      IN  /\ (calls # <<>> => RequestParsed)
          /\ Cardinality(CallsTo("stooq")) <= 8
          /\ Cardinality(CallsTo("coingecko")) <= 8
          /\ Len(llm_calls) <= 1
          /\ Len(context_lines) <= 16
          /\ Len(calls) <= Len(stocks) + Len(wcoins)
          /\ \A k \in DOMAIN calls :
                IF k <= Len(stocks)
                THEN /\ calls[k].provider = "stooq"
                     /\ calls[k].params.s = stocks[k] \o <<".", "U", "S">>
                ELSE /\ calls[k].provider = "coingecko"
                     /\ calls[k].params.ids = wcoins[k - Len(stocks)]
          /\ (llm_calls # <<>> =>
                /\ Len(calls) = Len(stocks) + Len(wcoins)
                /\ Len(outcomes) = Len(calls)
                /\ Len(context_lines) = Len(calls)
                /\ (context_lines # <<>> => SentContext = context_lines))

\* C10 witness: a finished /chat that named more than 8 tickers and more
\* than 8 coins, made 16 lookups and then one LLM call.
C10_Witness ==
    /\ IsChat /\ Finished /\ Len(llm_outcomes) = 1
    /\ Len(tickers) > 8
    /\ Len(coins) > 8
    /\ Len(calls) = 16 /\ Len(context_lines) = 16
    /\ Len(llm_calls) = 1

====
